---- MODULE Spec2Model ----
(***************************************************************************)
(* The browser client of the chat organizer (src/public/app.js, the        *)
(* variant of lines 1-538) together with the gateway it talks to          *)
(* (src/index.js, the cookie based variant of lines 94-534).               *)
(*                                                                         *)
(* JavaScript runs one handler at a time, so every action below is one     *)
(* uninterrupted piece of a handler: from its start to its first await,    *)
(* or from the arrival of an awaited response to its end.  Requests that   *)
(* are awaited live in net, where the gateway answers them in any order.   *)
(* A fetch can also reject; the gateway's calls of the remote API can      *)
(* throw.  Strings are sequences of one-character strings, so that         *)
(* firstLine can be computed as the code computes it.  A behaviour holds   *)
(* at most MaxGestures gestures of the user.                               *)
(*                                                                         *)
(* Spec is the page in use.  CallSpec calls the functions of app.js one    *)
(* at a time, on every well-formed stored state and with arguments the     *)
(* page itself never passes.                                               *)
(***************************************************************************)
EXTENDS Integers, Sequences, FiniteSets, TLC

(* ------------------------------ bounds --------------------------------- *)

\* remote thread ids are 1..MaxThreads, handed out in this order
MaxThreads == 2
\* folder ids are 1..MaxFolders
MaxFolders == 1
\* requests awaited at the same time
MaxInFlight == 2
\* calls of sendChat in one behaviour
MaxSends == 2
\* clicks, submits and answered dialogs of the user in one behaviour
MaxGestures == 3

\* null / undefined / no cookie
Null == 0
TIDs == 1..MaxThreads
FIDs == 1..MaxFolders

(* ------------------------------ strings -------------------------------- *)

NewChat == <<"N", "e", "w", " ", "c", "h", "a", "t">>
UntitledChat == <<"U", "n", "t", "i", "t", "l", "e", "d", " ", "c", "h", "a", "t">>
Hello == <<"H", "e", "l", "l", "o">>
Leads == <<"L", "e", "a", "d", "s">>
\* the assistant's answer, opaque to the client
ReplyText == <<"O", "K">>
\* `Error: ${j.error || "Something went wrong."}`
ErrorText == <<"E", "r", "r", "o", "r", ":">>
\* the one character U+2026 that firstLine appends
Ellipsis == "..."

\* the texts a user types into the composer (trimmed and not empty)
Texts == {Hello, NewChat}
\* the names a user types into a prompt() for a project
FolderNames == {Leads}
\* the names a user types into the prompt() of renameChat
ChatNames == {NewChat}

Whitespace == {" ", "\n", "\t"}

RECURSIVE TrimLeft(_)
TrimLeft(s) ==
  IF s = <<>> THEN <<>>
  ELSE IF Head(s) \in Whitespace THEN TrimLeft(Tail(s)) ELSE s

RECURSIVE TrimRight(_)
TrimRight(s) ==
  IF s = <<>> THEN <<>>
  ELSE IF s[Len(s)] \in Whitespace THEN TrimRight(SubSeq(s, 1, Len(s) - 1)) ELSE s

\* String.prototype.trim
Trim(s) == TrimRight(TrimLeft(s))

\* String.prototype.split("\n"): the sequence of lines
RECURSIVE SplitLines(_, _)
SplitLines(s, cur) ==
  IF s = <<>> THEN <<cur>>
  ELSE IF Head(s) = "\n" THEN <<cur>> \o SplitLines(Tail(s), <<>>)
  ELSE SplitLines(Tail(s), Append(cur, Head(s)))

\* Array.prototype.find(Boolean) on strings: the first non-empty one, or <<>> for undefined
RECURSIVE FindNonEmpty(_)
FindNonEmpty(lines) ==
  IF lines = <<>> THEN <<>>
  ELSE IF Head(lines) # <<>> THEN Head(lines) ELSE FindNonEmpty(Tail(lines))

TitleMax == 48
TitleKeep == 45

\* firstLine that cuts a long line at the limit it tests against
firstLine_cutsAtMax(text) ==
  LET t == Trim(text)
      found == FindNonEmpty(SplitLines(t, <<>>))
      line == IF found = <<>> THEN UntitledChat ELSE found
  IN IF Len(line) > TitleMax THEN Append(SubSeq(line, 1, TitleMax), Ellipsis) ELSE line

\* lines 42-46
firstLine(text) ==
  LET t == Trim(text)
      found == FindNonEmpty(SplitLines(t, <<>>))
      line == IF found = <<>> THEN UntitledChat ELSE found
  IN IF Len(line) > TitleMax THEN Append(SubSeq(line, 1, TitleKeep), Ellipsis) ELSE line

(* ------------------------------ arrays --------------------------------- *)

includes(arr, x) == \E i \in DOMAIN arr : arr[i] = x
unshift(arr, x) == <<x>> \o arr
without(arr, x) == SelectSeq(arr, LAMBDA y : y # x)
RemoveAt(arr, i) == SubSeq(arr, 1, i - 1) \o SubSeq(arr, i + 1, Len(arr))
Elems(arr) == {arr[i] : i \in DOMAIN arr}

(* ------------------------------ state ---------------------------------- *)

VARIABLES
  state,        \* app.js `state`: threads, folders, uncategorized, lastActiveThreadId
  threadId,     \* app.js `threadId`: the active thread
  messages,     \* the bubbles in messagesEl, oldest first
  bannerHidden, \* freshBanner has class "hidden"
  ls,           \* localStorage[LS_KEY]
  cookie,       \* the browser's thread_id cookie
  remote,       \* the threads of the remote assistant API and their messages
  net,          \* the requests the client awaits
  nsends,       \* calls of sendChat so far
  gestures,     \* gestures of the user so far
  derived,      \* the threads whose record got its title from sendChat
  last          \* the piece of a handler that ran last

vars == <<state, threadId, messages, bannerHidden, ls, cookie, remote, net, nsends, gestures, derived,
          last>>

EmptyMap == [x \in {} |-> Null]

\* app.js lines 17-22: the state before anything was loaded
DefaultState ==
  [threads |-> EmptyMap, folders |-> EmptyMap, uncategorized |-> <<>>,
   lastActiveThreadId |-> Null]

\* the properties of state whose values are objects keyed by id
Maps == {"threads", "folders"}

\* JSON.stringify(state): the properties the object has; an object keyed by id
\* becomes its set of key/value members
JSONstringify(s) ==
  [k \in DOMAIN s |-> IF k \in Maps THEN {<<x, s[k][x]>> : x \in DOMAIN s[k]} ELSE s[k]]

Members(obj) == [k \in {m[1] : m \in obj} |-> (CHOOSE m \in obj : m[1] = k)[2]]

\* a parse that forgets which thread was active
JSONparse_forgetsActive(doc) ==
  [k \in DOMAIN doc |-> IF k \in Maps THEN Members(doc[k])
                         ELSE IF k = "lastActiveThreadId" THEN Null ELSE doc[k]]

\* JSON.parse(raw): the properties the text has, no others
JSONparse(doc) ==
  [k \in DOMAIN doc |-> IF k \in Maps THEN Members(doc[k]) ELSE doc[k]]

\* localStorage holds no item (<<>>) or one text (<<text>>)
saveState(s) == <<JSONstringify(s)>>

\* a stored text that JSON.parse throws a SyntaxError on
Corrupt == [syntaxError |-> TRUE]
Parses(text) == "syntaxError" \notin DOMAIN text

\* loadState that reads another key than saveState writes: it never finds an item
loadState_findsNothing(item) == DefaultState

\* lines 31-38: state is the literal of lines 17-22 when loadState runs; it stays
\* that when there is no item (line 34) or JSON.parse throws (line 35)
loadState(item) ==
  IF item # <<>> /\ Parses(item[1]) THEN JSONparse(item[1]) ELSE DefaultState

\* { id, title, createdAt }: createdAt is Date.now(), read by formatDate only, left out
Thread(tid, title) == [id |-> tid, title |-> title]
Folder(fid, name) == [id |-> fid, name |-> name, open |-> TRUE, chats |-> <<>>]
Bubble(role, content, send, tid) == [role |-> role, content |-> content, send |-> send, tid |-> tid]
Msg(role, content) == [role |-> role, content |-> content]

\* the containers of thread ids: every folder's chats and Uncategorized
Containers(s) == {<<"folder", f>> : f \in DOMAIN s.folders} \cup {<<"uncategorized", Null>>}
ChatsOf(s, c) == IF c[1] = "folder" THEN s.folders[c[2]].chats ELSE s.uncategorized

\* the chat items renderSidebar draws (for some value of the search box)
Rendered(s) ==
  {t \in DOMAIN s.threads :
     \/ includes(s.uncategorized, t)
     \/ \E f \in DOMAIN s.folders : s.folders[f].open /\ includes(s.folders[f].chats, t)}

\* what the remote API has stored for a thread before any message of this behaviour
OldHistory == <<Msg("user", Hello), Msg("assistant", ReplyText)>>

\* a browser that was used before: one chat in the sidebar, its cookie still set
\* (the remote API may have dropped that thread since)
ReturningState ==
  [threads |-> (1 :> Thread(1, Hello)), folders |-> EmptyMap, uncategorized |-> <<1>>,
   lastActiveThreadId |-> 1]

\* fetch(url): the request leaves with the browser's cookie; the caller awaits it
Request(kind, cont, target, fid, text, send, tid, ck) ==
  [kind |-> kind, cont |-> cont, target |-> target, fid |-> fid, text |-> text,
   send |-> send, tid |-> tid, cookie |-> ck, phase |-> "sent", ok |-> FALSE,
   rtid |-> Null, rmsgs |-> <<>>, reply |-> <<>>, setCookie |-> Null]

\* the piece of a handler that ran last: a handler up to its end or its await
\* ("ran"), the rest of a handler after its await ("resumed"), a step of the gateway
\* ("served") or a fetch that rejected ("rejected")
\* n: the chats a deleted folder held
\* boot: how the fetchHistory of line 538 ended, "pending" while it is awaited
Step(op, at, ok) == [op |-> op, at |-> at, ok |-> ok, n |-> 0, boot |-> last.boot]
Did(op, ok) == Step(op, "ran", ok)

\* whether the page's markup gives freshBanner the class "hidden": the banner is
\* shown while the message view is empty
BannerHiddenAtLoad == FALSE

\* app.js lines 536-538: loadState(); fetchHistory(state.lastActiveThreadId)
Init ==
  \E world \in {"first visit", "returning", "returning, thread gone"} :
    /\ ls = IF world = "first visit" THEN <<>> ELSE saveState(ReturningState)
    /\ cookie = IF world = "first visit" THEN Null ELSE 1
    /\ remote = IF world = "first visit" THEN EmptyMap
                ELSE (1 :> [alive |-> (world = "returning"), msgs |-> OldHistory])
    /\ state = loadState(ls)
    /\ threadId = Null
    /\ messages = <<>>
    /\ bannerHidden = BannerHiddenAtLoad
    /\ net = <<Request("history", "init", state.lastActiveThreadId, Null, <<>>, 0,
                       Null, cookie)>>
    /\ nsends = 0
    /\ gestures = 0
    /\ derived = {}
    /\ last = [op |-> "init", at |-> "ran", ok |-> TRUE, n |-> 0, boot |-> "pending"]

(* ------------------- Folder/Chat actions (app.js 334-390) -------------- *)

\* what prompt() returns: a text, or nothing (cancelled or left empty)
Cancelled == <<>>

\* uid("folder"): an id no folder has
uid(s) == FIDs \ DOMAIN s.folders

Drop1(f, k) == [x \in DOMAIN f \ {k} |-> f[x]]

\* lines 337-338 (and 150-151): state.folders[id] = { id, name, open: true, chats: [] }
putFolder(s, id, name) == [s EXCEPT !.folders = (id :> Folder(id, name)) @@ @]

\* line 349: f.chats.forEach(tid => { if (!uncategorized.includes(tid)) uncategorized.unshift(tid) })
RECURSIVE unshiftMissing(_, _)
unshiftMissing(unc, chats) ==
  IF chats = <<>> THEN unc
  ELSE unshiftMissing(IF includes(unc, Head(chats)) THEN unc ELSE unshift(unc, Head(chats)),
                      Tail(chats))

\* deleteFolder without line 349: the chats of the folder go with it
removeFolder_dropsChats(s, fid) == [s EXCEPT !.folders = Drop1(@, fid)]

\* lines 349-350 of deleteFolder
removeFolder(s, fid) ==
  [s EXCEPT !.uncategorized = unshiftMissing(@, s.folders[fid].chats),
            !.folders = Drop1(@, fid)]

\* moveChatToFolder without lines 365-366: the chat stays where it was as well
moveChat_keepsOld(s, tid, fid) ==
  IF fid \in DOMAIN s.folders
    THEN [s EXCEPT !.folders[fid] = [@ EXCEPT !.chats = unshift(@, tid), !.open = TRUE]]
    ELSE [s EXCEPT !.uncategorized = unshift(@, tid)]

\* moveChatToFolder without lines 369-372: the chat lands in Uncategorized whatever
\* the target is
moveChat_toUncategorized(s, tid, fid) ==
  LET unc == without(s.uncategorized, tid)
      fs == [f \in DOMAIN s.folders |-> [s.folders[f] EXCEPT !.chats = without(@, tid)]]
  IN [s EXCEPT !.uncategorized = unshift(unc, tid), !.folders = fs]

\* lines 365-375 of moveChatToFolder
moveChat(s, tid, fid) ==
  LET unc == without(s.uncategorized, tid)
      fs == [f \in DOMAIN s.folders |-> [s.folders[f] EXCEPT !.chats = without(@, tid)]]
  IN IF fid \in DOMAIN fs
       THEN [s EXCEPT !.uncategorized = unc,
                      !.folders = [fs EXCEPT ![fid] = [@ EXCEPT !.chats = unshift(@, tid),
                                                                !.open = TRUE]]]
       ELSE [s EXCEPT !.uncategorized = unshift(unc, tid), !.folders = fs]

\* deleteChatLocal without line 384: the record of the chat stays
removeChat_keepsRecord(s, tid) ==
  [s EXCEPT !.uncategorized = without(@, tid),
            !.folders = [f \in DOMAIN @ |-> [@[f] EXCEPT !.chats = without(@, tid)]]]

\* lines 380-384 of deleteChatLocal
removeChat(s, tid) ==
  [s EXCEPT !.uncategorized = without(@, tid),
            !.folders = [f \in DOMAIN @ |-> [@[f] EXCEPT !.chats = without(@, tid)]],
            !.threads = Drop1(@, tid)]

\* the client variables a sidebar action leaves alone
\* a handler started by the user
Gesture == gestures < MaxGestures /\ gestures' = gestures + 1

SidebarOnly ==
  /\ Gesture
  /\ UNCHANGED <<threadId, messages, bannerHidden, cookie, remote, net, nsends, derived>>

\* addFolder without line 336: whatever prompt() returned becomes a folder
addFolder_noValidation(answer) ==
  /\ \E id \in uid(state) :
       /\ state' = putFolder(state, id, Trim(answer))
       /\ ls' = saveState(state')
       /\ last' = Did("addFolder", TRUE)
  /\ SidebarOnly

addFolder(answer) ==
  /\ IF answer = Cancelled \/ Trim(answer) = <<>>
       THEN /\ UNCHANGED <<state, ls>>
            /\ last' = Did("addFolder", FALSE)
       ELSE \E id \in uid(state) :
              /\ state' = putFolder(state, id, Trim(answer))
              /\ ls' = saveState(state')
              /\ last' = Did("addFolder", TRUE)
  /\ SidebarOnly

renameFolder(fid, answer) ==
  /\ fid \in DOMAIN state.folders
  /\ IF answer # Cancelled /\ Trim(answer) # <<>>
       THEN /\ state' = [state EXCEPT !.folders[fid].name = Trim(answer)]
            /\ ls' = saveState(state')
            /\ last' = Did("renameFolder", TRUE)
       ELSE /\ UNCHANGED <<state, ls>>
            /\ last' = Did("renameFolder", FALSE)
  /\ SidebarOnly

\* the click handler without its saveState()
toggleFolder_noSave(fid) ==
  /\ fid \in DOMAIN state.folders
  /\ state' = [state EXCEPT !.folders[fid].open = ~@]
  /\ ls' = ls
  /\ last' = Did("toggleFolder", TRUE)
  /\ SidebarOnly

\* lines 210-212 and 218-221: a click on the folder row or its chevron
toggleFolder(fid) ==
  /\ fid \in DOMAIN state.folders
  /\ state' = [state EXCEPT !.folders[fid].open = ~@]
  /\ ls' = saveState(state')
  /\ last' = Did("toggleFolder", TRUE)
  /\ SidebarOnly

deleteFolder(fid, confirmed) ==
  /\ fid \in DOMAIN state.folders
  /\ IF confirmed
       THEN /\ state' = removeFolder(state, fid)
            /\ ls' = saveState(state')
       ELSE UNCHANGED <<state, ls>>
  /\ last' = [Did("deleteFolder", confirmed) EXCEPT !.n = Len(state.folders[fid].chats)]
  /\ SidebarOnly

renameChat(tid, answer) ==
  /\ tid \in Rendered(state)
  /\ IF answer # Cancelled /\ Trim(answer) # <<>>
       THEN /\ state' = [state EXCEPT !.threads[tid].title = Trim(answer)]
            /\ ls' = saveState(state')
            /\ last' = Did("renameChat", TRUE)
       ELSE /\ UNCHANGED <<state, ls>>
            /\ last' = Did("renameChat", FALSE)
  /\ SidebarOnly

\* lines 132-141: the item `Move to "name"` of the move menu
moveChatToFolder(tid, fid) ==
  /\ tid \in Rendered(state)
  /\ fid \in DOMAIN state.folders
  /\ state' = moveChat(state, tid, fid)
  /\ ls' = saveState(state')
  /\ last' = Did("moveChatToFolder", TRUE)
  /\ SidebarOnly

\* lines 145-155: the item "New project..." of the move menu
moveChatToNewFolder(tid, answer) ==
  /\ tid \in Rendered(state)
  /\ IF answer = Cancelled \/ Trim(answer) = <<>>
       THEN /\ UNCHANGED <<state, ls>>
            /\ last' = Did("moveChatToNewFolder", FALSE)
       ELSE \E id \in uid(state) :
              /\ state' = moveChat(putFolder(state, id, Trim(answer)), tid, id)
              /\ ls' = saveState(state')
              /\ last' = Did("moveChatToNewFolder", TRUE)
  /\ SidebarOnly

(* ------------------------- API (app.js 394-508) ------------------------ *)

CanFetch == Len(net) < MaxInFlight

\* lines 395-396 of fetchHistory: the request is sent, the handler (fetchHistory
\* itself, or switchThread that awaits it) awaits
fetchHistoryCall(cont, target) ==
  /\ CanFetch
  /\ net' = Append(net, Request("history", cont, target, Null, <<>>, 0, Null, cookie))
  /\ UNCHANGED <<state, threadId, messages, bannerHidden, ls, cookie, remote, nsends, derived>>

\* line 521: refreshBtn
refresh ==
  /\ Gesture
  /\ fetchHistoryCall("fetchHistory", Null)
  /\ last' = Did("refresh", TRUE)

\* lines 311 and 432-435: a click on a chat item
switchThread(tid) ==
  /\ tid \in Rendered(state)
  /\ Gesture
  /\ fetchHistoryCall("switchThread", tid)
  /\ last' = Did("switchThread", TRUE)

\* lines 414-415: firstUser?.content || msgs[0]?.content || "New chat"
RECURSIVE FirstUserContent(_)
FirstUserContent(msgs) ==
  IF msgs = <<>> THEN <<>>
  ELSE IF Head(msgs).role = "user" THEN Head(msgs).content ELSE FirstUserContent(Tail(msgs))

titleSeed(msgs) ==
  IF FirstUserContent(msgs) # <<>> THEN FirstUserContent(msgs)
  ELSE IF msgs # <<>> /\ msgs[1].content # <<>> THEN msgs[1].content
  ELSE NewChat

\* the registration without the test of line 423: the title of a seen thread is
\* overwritten whatever it is
registerChat_overwritesTitle(s, tid, msgs) ==
  LET title == firstLine(titleSeed(msgs))
  IN IF tid \notin DOMAIN s.threads
       THEN [s EXCEPT !.threads = (tid :> Thread(tid, title)) @@ @,
                      !.uncategorized = IF includes(@, tid) THEN @ ELSE unshift(@, tid)]
       ELSE [s EXCEPT !.threads[tid].title = title]

\* the registration without the tests of lines 418 and 420: every thread is
\* inserted as if it were unseen
registerChat_noSeenCheck(s, tid, msgs) ==
  [s EXCEPT !.threads = (tid :> Thread(tid, firstLine(titleSeed(msgs)))) @@ @,
            !.uncategorized = unshift(@, tid)]

\* lines 418-427 of fetchHistory: index the thread in the sidebar state
registerChat(s, tid, msgs) ==
  LET title == firstLine(titleSeed(msgs))
  IN IF tid \notin DOMAIN s.threads
       THEN [s EXCEPT !.threads = (tid :> Thread(tid, title)) @@ @,
                      !.uncategorized = IF includes(@, tid) THEN @ ELSE unshift(@, tid)]
       ELSE IF s.threads[tid].title = NewChat /\ title # NewChat
              THEN [s EXCEPT !.threads[tid].title = title]
              ELSE s

\* lines 404-411: clearMessages(), then one bubble per message of the history
historyBubbles(msgs, tid) == [i \in DOMAIN msgs |-> Bubble(msgs[i].role, msgs[i].content, 0, tid)]

\* lines 398-429 of fetchHistory, once the response j is there
fetchHistoryDone(j) ==
  IF ~j.ok
    THEN UNCHANGED <<state, threadId, messages, bannerHidden, ls>>
    ELSE /\ threadId' = j.rtid
         /\ state' = registerChat([state EXCEPT !.lastActiveThreadId = j.rtid], j.rtid, j.rmsgs)
         /\ ls' = saveState(state')
         /\ messages' = historyBubbles(j.rmsgs, j.rtid)
         /\ bannerHidden' = (j.rmsgs # <<>>)

\* lines 442-446 of startNewThread
\* startNewThread that records the chat without listing it
newThreadState_unlisted(s, tid) ==
  [s EXCEPT !.lastActiveThreadId = tid,
            !.threads = (tid :> Thread(tid, NewChat)) @@ @]

\* lines 443-446 of startNewThread
newThreadState(s, tid) ==
  [s EXCEPT !.lastActiveThreadId = tid,
            !.threads = (tid :> Thread(tid, NewChat)) @@ @,
            !.uncategorized = unshift(@, tid)]

\* startNewThreadInFolder that files the new chat like startNewThread does
newThreadInFolderState_unfiled(s, tid, fid) ==
  [s EXCEPT !.lastActiveThreadId = tid,
            !.threads = (tid :> Thread(tid, NewChat)) @@ @,
            !.uncategorized = unshift(@, tid)]

\* lines 460-476 of startNewThreadInFolder
newThreadInFolderState(s, tid, fid) ==
  LET unc == without(s.uncategorized, tid)
      s1 == [s EXCEPT !.lastActiveThreadId = tid,
                      !.threads = (tid :> Thread(tid, NewChat)) @@ @]
  IN IF fid \in DOMAIN s.folders
       THEN [s1 EXCEPT !.uncategorized = unc,
                       !.folders[fid] = [@ EXCEPT !.chats = unshift(@, tid), !.open = TRUE]]
       ELSE [s1 EXCEPT !.uncategorized = unshift(unc, tid)]

\* startNewThread without line 440: the answer is used whatever its ok says
startNewThreadDone_ignoresOk(j) ==
  /\ threadId' = j.rtid
  /\ state' = newThreadState(state, j.rtid)
  /\ ls' = saveState(state')
  /\ messages' = <<>>
  /\ bannerHidden' = FALSE

\* lines 440-451 of startNewThread and 458-483 of startNewThreadInFolder
startNewThreadDone(j) ==
  IF ~j.ok
    THEN UNCHANGED <<state, threadId, messages, bannerHidden, ls>>
    ELSE /\ threadId' = j.rtid
         /\ state' = IF j.cont = "startNewThread" THEN newThreadState(state, j.rtid)
                     ELSE newThreadInFolderState(state, j.rtid, j.fid)
         /\ ls' = saveState(state')
         /\ messages' = <<>>
         /\ bannerHidden' = FALSE

\* lines 438 and 456: POST /new is sent, the handler awaits
newThreadCall(cont, fid) ==
  /\ CanFetch
  /\ net' = Append(net, Request("new", cont, Null, fid, <<>>, 0, Null, cookie))

\* line 520: newChatBtn
startNewThread ==
  /\ Gesture
  /\ newThreadCall("startNewThread", Null)
  /\ last' = Did("startNewThread", TRUE)
  /\ UNCHANGED <<state, threadId, messages, bannerHidden, ls, cookie, remote, nsends, derived>>

\* line 245: "New chat in this project"
startNewThreadInFolder(fid) ==
  /\ fid \in DOMAIN state.folders
  /\ Gesture
  /\ newThreadCall("startNewThreadInFolder", fid)
  /\ last' = Did("startNewThreadInFolder", TRUE)
  /\ UNCHANGED <<state, threadId, messages, bannerHidden, ls, cookie, remote, nsends, derived>>

\* lines 302-305 and 379-390: "Delete" of a chat item
deleteChatLocal(tid, confirmed) ==
  /\ tid \in Rendered(state)
  /\ Gesture
  /\ last' = Did("deleteChatLocal", confirmed)
  /\ IF ~confirmed
       THEN UNCHANGED <<state, ls, net, derived>>
       ELSE /\ state' = removeChat(state, tid)
            /\ ls' = saveState(state')
            /\ derived' = derived \ {tid}
            /\ IF threadId = tid
                 THEN newThreadCall("startNewThread", Null)
                 ELSE UNCHANGED net
  /\ UNCHANGED <<threadId, messages, bannerHidden, cookie, remote, nsends>>

\* lines 489-490 of sendChat: t && (t.title === "New chat" || !t.title)
needsTitle(s, tid) ==
  tid \in DOMAIN s.threads /\ (s.threads[tid].title = NewChat \/ s.threads[tid].title = <<>>)

\* lines 512-518 and 487-500: submit of the composer, sendChat up to its await
sendChat(text) ==
  /\ nsends < MaxSends
  /\ CanFetch
  /\ Gesture
  /\ nsends' = nsends + 1
  /\ messages' = Append(messages, Bubble("user", text, nsends', threadId))
  /\ bannerHidden' = TRUE
  /\ IF needsTitle(state, threadId)
       THEN /\ state' = [state EXCEPT !.threads[threadId].title = firstLine(text)]
            /\ ls' = saveState(state')
            /\ derived' = derived \cup {threadId}
       ELSE UNCHANGED <<state, ls, derived>>
  /\ net' = Append(net, Request("chat", "sendChat", Null, Null, text, nsends', threadId, cookie))
  /\ last' = Did("sendChat", TRUE)
  /\ UNCHANGED <<threadId, cookie, remote>>

\* the end of sendChat with an addMsg that leaves the banner alone
sendChatDone_keepsBanner(j) ==
  /\ messages' = Append(messages,
                        Bubble("assistant", IF j.ok THEN j.reply ELSE ErrorText,
                               j.send, j.tid))
  /\ UNCHANGED <<state, threadId, ls, bannerHidden>>

\* lines 502-507 of sendChat, once the response j is there
sendChatDone(j) ==
  /\ messages' = Append(messages,
                        Bubble("assistant", IF j.ok THEN j.reply ELSE ErrorText,
                               j.send, j.tid))
  /\ bannerHidden' = TRUE
  /\ UNCHANGED <<state, threadId, ls>>

\* the function whose fetch a request is
Awaited(j) == IF j.kind = "history" THEN "fetchHistory" ELSE j.cont

\* an awaited fetch resolves: the browser stores the cookie of the response, then the
\* handler that awaited it goes on
resolve(i) ==
  LET j == net[i] IN
  /\ j.phase = "answered"
  /\ cookie' = IF j.setCookie # Null THEN j.setCookie ELSE cookie
  /\ net' = RemoveAt(net, i)
  /\ CASE j.kind = "history" -> fetchHistoryDone(j)
       [] j.kind = "chat" -> sendChatDone(j)
       [] j.kind = "new" -> startNewThreadDone(j)
  /\ last' = [Step(Awaited(j), "resumed", j.ok) EXCEPT
                !.boot = IF j.cont # "init" THEN @ ELSE IF j.ok THEN "loaded" ELSE "failed"]
  /\ UNCHANGED <<remote, nsends, gestures, derived>>

\* an awaited fetch rejects (the gateway is unreachable, or its answer is lost on the
\* way): no handler has a catch, so the handler that awaited it ends there.  A cookie
\* of an answer that did leave the gateway may or may not have been stored.
reject(i, stored) ==
  LET j == net[i] IN
  /\ i \in DOMAIN net
  /\ stored => j.phase = "answered" /\ j.setCookie # Null
  /\ cookie' = IF stored THEN j.setCookie ELSE cookie
  /\ net' = RemoveAt(net, i)
  /\ last' = [Step(Awaited(j), "rejected", FALSE) EXCEPT
                !.boot = IF j.cont = "init" THEN "failed" ELSE @]
  /\ UNCHANGED <<state, threadId, messages, bannerHidden, ls, remote, nsends, gestures,
               derived>>

(* ------------------------- gateway (index.js) -------------------------- *)

\* openai.beta.threads.create(): the next thread id, while there is one
CanCreate == Cardinality(DOMAIN remote) < MaxThreads
NewId == Cardinality(DOMAIN remote) + 1
Known(tid) == tid \in DOMAIN remote /\ remote[tid].alive
created(r, tid) == (tid :> [alive |-> TRUE, msgs |-> <<>>]) @@ r

Answer(j, ok, rtid, rmsgs, reply, setCookie) ==
  [j EXCEPT !.phase = "answered", !.ok = ok, !.rtid = rtid, !.rmsgs = rmsgs,
            !.reply = reply, !.setCookie = setCookie]

Served(j, ok) ==
  /\ last' = Step(j.kind, "served", ok)
  /\ UNCHANGED <<state, threadId, messages, bannerHidden, ls, cookie, nsends, gestures,
               derived>>

\* index.js lines 147-176: GET /history.  throws names the remote call that throws:
\* "create" (ensureThread's threads.create), "list" (messages.list) or "none".
serveHistory(i, throws) ==
  LET j == net[i]
      creates == j.target = Null /\ j.cookie = Null
      tid == IF j.target # Null THEN j.target ELSE IF j.cookie # Null THEN j.cookie ELSE NewId
      set == IF j.target # Null THEN j.target ELSE IF creates THEN NewId ELSE Null
  IN
  /\ j.kind = "history" /\ j.phase = "sent"
  /\ throws = "create" => creates
  /\ creates /\ throws # "create" => CanCreate
  /\ IF throws = "create"
       THEN /\ remote' = remote
            /\ net' = [net EXCEPT ![i] = Answer(j, FALSE, Null, <<>>, <<>>, Null)]
            /\ Served(j, FALSE)
       ELSE LET r == IF creates THEN created(remote, tid) ELSE remote IN
            /\ remote' = r
            /\ IF throws = "list" \/ ~(tid \in DOMAIN r /\ r[tid].alive)
                 THEN /\ net' = [net EXCEPT ![i] = Answer(j, FALSE, Null, <<>>, <<>>, set)]
                      /\ Served(j, FALSE)
                 ELSE /\ net' = [net EXCEPT ![i] = Answer(j, TRUE, tid, r[tid].msgs, <<>>, set)]
                      /\ Served(j, TRUE)

\* index.js lines 179-194: POST /new
serveNew(i, throws) ==
  LET j == net[i] IN
  /\ j.kind = "new" /\ j.phase = "sent"
  /\ ~throws => CanCreate
  /\ IF throws
       THEN /\ remote' = remote
            /\ net' = [net EXCEPT ![i] = Answer(j, FALSE, Null, <<>>, <<>>, Null)]
       ELSE /\ remote' = created(remote, NewId)
            /\ net' = [net EXCEPT ![i] = Answer(j, TRUE, NewId, <<>>, <<>>, NewId)]
  /\ Served(j, ~throws)

\* index.js lines 443-447: the text of the last assistant message, or "(No reply)"
RECURSIVE lastAssistant(_)
lastAssistant(msgs) ==
  IF msgs = <<>> THEN <<>>
  ELSE IF msgs[Len(msgs)].role = "assistant" THEN msgs[Len(msgs)].content
  ELSE lastAssistant(SubSeq(msgs, 1, Len(msgs) - 1))

\* index.js lines 361-522: POST /chat.  outcome: "create" (ensureThread's
\* threads.create throws), "post" (messages.create throws), "run" (the run ends
\* failed, cancelled or expired, or a later call throws or times out), "completed".
serveChat(i, outcome) ==
  LET j == net[i]
      creates == j.cookie = Null
      tid == IF creates THEN NewId ELSE j.cookie
      set == IF creates THEN NewId ELSE Null
  IN
  /\ j.kind = "chat" /\ j.phase = "sent"
  /\ outcome = "create" => creates
  /\ creates /\ outcome # "create" => CanCreate
  /\ IF outcome = "create"
       THEN /\ remote' = remote
            /\ net' = [net EXCEPT ![i] = Answer(j, FALSE, Null, <<>>, <<>>, Null)]
            /\ Served(j, FALSE)
       ELSE LET r == IF creates THEN created(remote, tid) ELSE remote
                posted == [r EXCEPT ![tid].msgs = Append(@, Msg("user", j.text))]
                replied == [posted EXCEPT ![tid].msgs = Append(@, Msg("assistant", ReplyText))]
            IN
            IF outcome = "post" \/ ~(tid \in DOMAIN r /\ r[tid].alive)
              THEN /\ remote' = r
                   /\ net' = [net EXCEPT ![i] = Answer(j, FALSE, Null, <<>>, <<>>, set)]
                   /\ Served(j, FALSE)
              ELSE IF outcome = "run"
                     THEN /\ remote' = posted
                          /\ net' = [net EXCEPT ![i] = Answer(j, FALSE, Null, <<>>, <<>>, set)]
                          /\ Served(j, FALSE)
                     ELSE /\ remote' = replied
                          /\ net' = [net EXCEPT ![i] =
                                       Answer(j, TRUE, Null, <<>>, lastAssistant(replied[tid].msgs), set)]
                          /\ Served(j, TRUE)

(* ------------------------------ behaviours ----------------------------- *)

Answers == FolderNames \cup {Cancelled}

Next ==
  \/ \E a \in Answers : addFolder(a)
  \/ \E f \in FIDs, a \in Answers : renameFolder(f, a)
  \/ \E f \in FIDs : toggleFolder(f)
  \/ \E f \in FIDs, c \in BOOLEAN : deleteFolder(f, c)
  \/ \E t \in TIDs, a \in ChatNames \cup {Cancelled} : renameChat(t, a)
  \/ \E t \in TIDs, f \in FIDs : moveChatToFolder(t, f)
  \/ \E t \in TIDs, a \in Answers : moveChatToNewFolder(t, a)
  \/ \E t \in TIDs, c \in BOOLEAN : deleteChatLocal(t, c)
  \/ refresh
  \/ \E t \in TIDs : switchThread(t)
  \/ startNewThread
  \/ \E f \in FIDs : startNewThreadInFolder(f)
  \/ \E x \in Texts : sendChat(x)
  \/ \E i \in DOMAIN net : resolve(i)
  \/ \E i \in DOMAIN net, c \in BOOLEAN : reject(i, c)
  \/ \E i \in DOMAIN net, e \in {"none", "create", "list"} : serveHistory(i, e)
  \/ \E i \in DOMAIN net, e \in BOOLEAN : serveNew(i, e)
  \/ \E i \in DOMAIN net, o \in {"create", "post", "run", "completed"} : serveChat(i, o)

Spec == Init /\ [][Next]_vars

(* ------------------- the functions, called one at a time --------------- *)

\* the titles of the records in a stored state
StoredTitles == {NewChat, Hello}

\* the elements of a set of numbers as an array, ascending
RECURSIVE Ascending(_)
Ascending(S) ==
  IF S = {} THEN <<>>
  ELSE LET m == CHOOSE x \in S : \A y \in S : x <= y IN <<m>> \o Ascending(S \ {m})

Reverse(arr) == [i \in DOMAIN arr |-> arr[Len(arr) + 1 - i]]

\* the state in which the threads of DOMAIN titles have these titles, the folders of
\* DOMAIN opens exist, and thread t is listed in folder place[t] (in Uncategorized
\* when there is no such folder)
Organized(titles, opens, place, newestFirst, active) ==
  LET home(t) == IF place[t] \in DOMAIN opens THEN place[t] ELSE Null
      list(c) == LET a == Ascending({t \in DOMAIN titles : home(t) = c})
                 IN IF newestFirst THEN Reverse(a) ELSE a
  IN [threads |-> [t \in DOMAIN titles |-> Thread(t, titles[t])],
      folders |-> [f \in DOMAIN opens |->
                     [id |-> f, name |-> Leads, open |-> opens[f], chats |-> list(f)]],
      uncategorized |-> list(Null),
      lastActiveThreadId |-> IF active /\ list(Null) # <<>> THEN list(Null)[1] ELSE Null]

\* the states the handlers of app.js leave behind: every listed thread has a record
\* and every record is listed in one container
WellFormed ==
  {Organized(titles, opens, place, newestFirst, active) :
     titles \in UNION {[P -> StoredTitles] : P \in SUBSET TIDs},
     opens \in UNION {[F -> BOOLEAN] : F \in SUBSET FIDs},
     place \in [TIDs -> FIDs \cup {Null}],
     newestFirst \in BOOLEAN,
     active \in BOOLEAN}

\* a stored text that lacks property k
Lacking(item, k) == <<[x \in DOMAIN item[1] \ {k} |-> item[1][x]]>>

\* what localStorage can hold when the page loads: nothing, a text that does not
\* parse, a saved state, or a state saved without one of its properties (by
\* another version of the page)
Items ==
  {<<>>, <<Corrupt>>} \cup {saveState(s) : s \in WellFormed}
    \cup {Lacking(saveState(ReturningState), k) : k \in DOMAIN DefaultState}

\* state has the four properties every function of app.js reads; a function called
\* on a state that lacks one throws a TypeError
Complete(s) == DOMAIN s = DOMAIN DefaultState

\* a line of n characters
Line(n) == [i \in 1..n |-> "a"]

\* the texts firstLine is called with: of lines as long as the limits of line 45
\* and one more or less, blank, padded, and of several lines
LineTexts ==
  {<<>>, <<" ", "\n", " ">>, Hello,
   <<" ">> \o Hello \o <<" ", "\n">> \o Line(TitleMax + 1),
   Hello \o <<" ", "\n", "\n">> \o Hello,
   <<"\n", "\n">> \o Hello,
   <<"\t">> \o Line(TitleMax + 1) \o <<" ">>}
  \cup {Line(n) : n \in {TitleKeep, TitleKeep + 1, TitleMax - 1, TitleMax, TitleMax + 1,
                          TitleMax + 2}}

\* the message lists GET /history answers with (index.js 167-171: a message without
\* text parts has content "")
Histories ==
  {<<>>, OldHistory,
   <<Msg("assistant", ReplyText), Msg("user", Hello)>>,
   <<Msg("assistant", ReplyText)>>,
   <<Msg("user", <<>>), Msg("assistant", ReplyText)>>,
   <<Msg("assistant", <<>>)>>,
   <<Msg("user", NewChat), Msg("assistant", ReplyText)>>,
   <<Msg("user", <<" ">>)>>,
   <<Msg("user", Line(TitleMax + 1))>>}

\* the call that ran last, with its arguments and the state it was made in
Call(op, ok, arg) == Did(op, ok) @@ [arg |-> arg, before |-> state]

\* the calls below are made on the state loadState leaves, or after a first
\* fetchHistory
Loaded == last.op = "loadState" /\ Complete(state)
Fetched == last.op = "fetchHistory" /\ last.arg.first

\* line 537: loadState(), the first call of the script
callLoadState ==
  /\ last.op = "init"
  /\ state' = loadState(ls)
  /\ last' = Call("loadState", ls # <<>>, [item |-> ls])
  /\ UNCHANGED <<threadId, messages, bannerHidden, ls, cookie, remote, net, nsends, gestures,
               derived>>

\* lines 42-46: firstLine(text); it reads no state, and is called here on a first visit
callFirstLine(text) ==
  /\ Loaded /\ ls = <<>>
  /\ last' = Call("firstLine", TRUE, [text |-> text, line |-> firstLine(text)])
  /\ UNCHANGED <<state, threadId, messages, bannerHidden, ls, cookie, remote, net, nsends,
               gestures, derived>>

\* lines 363-377: moveChatToFolder(tid, fid), with any thread id and any target
callMoveChatToFolder(tid, fid) ==
  /\ Loaded
  /\ state' = moveChat(state, tid, fid)
  /\ ls' = saveState(state')
  /\ last' = Call("moveChatToFolder", TRUE, [tid |-> tid, fid |-> fid])
  /\ UNCHANGED <<threadId, messages, bannerHidden, cookie, remote, net, nsends, gestures,
               derived>>

\* lines 398-429: fetchHistory resumes with the answer { ok: true, threadId, messages },
\* for the first time or once more with the same answer
callFetchHistory(tid, msgs) ==
  /\ Loaded \/ (Fetched /\ last.arg.tid = tid /\ last.arg.msgs = msgs)
  /\ fetchHistoryDone(Answer(Request("history", "fetchHistory", Null, Null, <<>>, 0, Null,
                                     cookie),
                             TRUE, tid, msgs, <<>>, Null))
  /\ last' = Call("fetchHistory", TRUE, [tid |-> tid, msgs |-> msgs, first |-> Loaded])
  /\ UNCHANGED <<cookie, remote, net, nsends, gestures, derived>>

\* lines 379-390: deleteChatLocal(tid) of a chat of the sidebar, the active one or
\* another; the POST /new it may send stays unanswered
callDeleteChatLocal(tid) ==
  /\ Fetched
  /\ deleteChatLocal(tid, TRUE)

\* what prompt() returns for a folder name: nothing, blanks, a name, a padded name
NameAnswers == {Cancelled, <<" ", " ">>, Leads, <<" ">> \o Leads \o <<" ">>}

\* lines 334-340: addFolder() with the answer of its prompt()
callAddFolder(answer) ==
  /\ Loaded
  /\ addFolder(answer)

\* lines 341-345: renameFolder(fid) with the answer of its prompt()
callRenameFolder(fid, answer) ==
  /\ Loaded
  /\ renameFolder(fid, answer)

(* the gateway's handlers, called by a browser that stored nothing *)

\* what res.status(code).json(...) sends
Response(code, ok, reply, error) ==
  [code |-> code, ok |-> ok, reply |-> reply, error |-> error]

\* req.body of POST /thread/switch: threadId absent, a number, or a string (Null:
\* the empty string)
SwitchBodies ==
  {[type |-> "undefined", id |-> Null], [type |-> "string", id |-> Null]}
    \cup [type : {"number", "string"}, id : TIDs]

\* POST /thread/switch with res.cookie moved above the retrieve
threadSwitch_cookieFirst(body, throws) ==
  LET valid == body.type = "string" /\ body.id # Null
      confirmed == valid /\ Known(body.id) /\ ~throws
      res == IF ~valid THEN Response(400, FALSE, <<>>, <<"threadId required">>)
             ELSE IF ~confirmed THEN Response(400, FALSE, <<>>, <<"Invalid threadId">>)
             ELSE Response(200, TRUE, <<>>, <<>>)
  IN
  /\ throws => valid
  /\ cookie' = IF valid THEN body.id ELSE cookie
  /\ last' = Call("threadSwitch", res.ok, [body |-> body, throws |-> throws])
                @@ [res |-> res, jar |-> cookie]
  /\ UNCHANGED <<state, threadId, messages, bannerHidden, ls, remote, net, nsends,
                 gestures, derived>>

\* part_000 lines 86-108: POST /thread/switch, and the browser storing the cookie
\* of the response.  throws: threads.retrieve fails though the thread exists.
threadSwitch(body, throws) ==
  LET valid == body.type = "string" /\ body.id # Null
      confirmed == valid /\ Known(body.id) /\ ~throws
      res == IF ~valid THEN Response(400, FALSE, <<>>, <<"threadId required">>)
             ELSE IF ~confirmed THEN Response(400, FALSE, <<>>, <<"Invalid threadId">>)
             ELSE Response(200, TRUE, <<>>, <<>>)
  IN
  /\ throws => valid
  /\ cookie' = IF confirmed THEN body.id ELSE cookie
  /\ last' = Call("threadSwitch", res.ok, [body |-> body, throws |-> throws])
                @@ [res |-> res, jar |-> cookie]
  /\ UNCHANGED <<state, threadId, messages, bannerHidden, ls, remote, net, nsends,
                 gestures, derived>>

callThreadSwitch(body, throws) ==
  /\ ls = <<>>
  /\ last.op \in {"loadState", "threadSwitch"}
  /\ threadSwitch(body, throws)

\* index.js line 390: const deadline = Date.now() + 45_000
PollDeadlineMs == 45000
\* index.js line 397: setTimeout(r, 800)
PollSleepMs == 800
\* the polls of the loop without a deadline that are followed
MaxPolls == 4

Terminal == {"completed", "failed", "cancelled", "expired"}

\* a run of the assistant: the retrieve from which it shows its final status
\* (0: never), and that status
Runs == [ends : {0, 1, 3}, as : Terminal]
StatusAt(run, k) == IF run.ends # 0 /\ k >= run.ends THEN run.as ELSE "in_progress"

\* how long a runs.retrieve takes, in ms
Latencies == {0, PollDeadlineMs}

\* process.env: both keys set, or one of them missing
Envs == {"set", "OPENAI_API_KEY not set", "ASSISTANT_ID not set"}

NoReply == <<"(", "N", "o", " ", "r", "e", "p", "l", "y", ")">>
NoResponse == Response(0, FALSE, <<>>, <<>>)

\* err.message of a remote call that threw
Thrown(call) == <<call, "failed">>

\* a POST /chat at the top of its poll loop
\* jar: the cookie the request came with; set: the cookie ensureThread set; now: ms
\* since the deadline was computed; polledAt: when the last retrieve was started;
\* sent: the responses written
Polling(op, set, tid, run) ==
  [op |-> op, at |-> "polling", ok |-> TRUE, n |-> 0, boot |-> last.boot,
   jar |-> cookie, set |-> set, tid |-> tid, run |-> run, status |-> "queued",
   now |-> 0, polls |-> 0, polledAt |-> 0, threw |-> "none", sent |-> 0,
   res |-> NoResponse]

\* res.json / res.status(500).json, in the body or in the catch block
Answered(c, res, threw) ==
  [c EXCEPT !.at = "answered", !.ok = res.ok, !.res = res, !.threw = threw,
            !.sent = @ + 1]

ChatOnly ==
  UNCHANGED <<state, threadId, messages, bannerHidden, ls, net, nsends, gestures,
              derived>>

\* the browser stores the cookie of a response
Receive(c) == cookie' = IF c.set # Null THEN c.set ELSE cookie

\* index.js lines 361-389 (with a cookie jar) and 33-61 (creates always): POST /chat
\* up to its poll loop.  throws: the remote call that throws, "threads.create",
\* "messages.create", "runs.create" or "none".
chatStart(op, creates, env, throws, run) ==
  LET tid == IF creates THEN NewId ELSE cookie
      set == IF creates /\ op = "chat" THEN tid ELSE Null
      c == Polling(op, set, tid, run)
      r == IF creates THEN created(remote, tid) ELSE remote
      posted == [r EXCEPT ![tid].msgs = Append(@, Msg("user", Hello))]
  IN
  /\ throws = "threads.create" => creates
  /\ ChatOnly
  /\ IF env # "set"
       THEN /\ last' = Answered([c EXCEPT !.set = Null], Response(500, FALSE, <<>>, <<env>>), "none")
            /\ UNCHANGED <<remote, cookie>>
       ELSE IF throws = "threads.create"
       THEN /\ last' = Answered([c EXCEPT !.set = Null],
                                Response(500, FALSE, <<>>, Thrown(throws)), throws)
            /\ UNCHANGED <<remote, cookie>>
       ELSE /\ creates => CanCreate
            /\ IF throws = "messages.create" \/ ~(tid \in DOMAIN r /\ r[tid].alive)
                 THEN /\ remote' = r
                      /\ last' = Answered(c, Response(500, FALSE, <<>>, Thrown("messages.create")),
                                          "messages.create")
                      /\ Receive(c)
                 ELSE IF throws = "runs.create"
                 THEN /\ remote' = posted
                      /\ last' = Answered(c, Response(500, FALSE, <<>>, Thrown(throws)), throws)
                      /\ Receive(c)
                 ELSE /\ remote' = posted
                      /\ last' = c
                      /\ cookie' = cookie

CallThrows == {"none", "threads.create", "messages.create", "runs.create"}

callChat(env, throws, run) ==
  /\ ls = <<>>
  /\ last.op \in {"loadState", "threadSwitch"}
  /\ chatStart("chat", cookie = Null, env, throws, run)

\* index.js lines 33-61: the POST /chat that creates a thread for every request
callChatThreadless(env, throws, run) ==
  /\ ls = <<>>
  /\ last.op = "loadState"
  /\ chatStart("chatThreadless", TRUE, env, throws, run)

\* one turn of the poll loop: the deadline test (where the loop has one), the
\* retrieve, the sleep; then lines 400-402 when the loop is left
poll(hasDeadline, latency, throws) ==
  LET k == last.polls + 1
      st == StatusAt(last.run, k)
      c == [last EXCEPT !.polls = k, !.polledAt = last.now, !.status = st,
                        !.now = @ + latency + (IF st \in Terminal THEN 0 ELSE PollSleepMs)]
  IN
  /\ last.at = "polling"
  /\ ChatOnly
  /\ IF hasDeadline /\ last.now > PollDeadlineMs
       THEN /\ last' = Answered(last, Response(500, FALSE, <<>>, <<"Timeout waiting for assistant.">>),
                                "deadline")
            /\ remote' = remote
            /\ Receive(last)
       ELSE IF throws
       THEN /\ last' = Answered([last EXCEPT !.polls = k, !.polledAt = last.now],
                                Response(500, FALSE, <<>>, Thrown("runs.retrieve")),
                                "runs.retrieve")
            /\ remote' = remote
            /\ Receive(last)
       ELSE IF st \notin Terminal
       THEN /\ last' = c
            /\ UNCHANGED <<remote, cookie>>
       ELSE IF st # "completed"
       THEN /\ last' = Answered(c, Response(500, FALSE, <<>>, <<"Run", st>>), "none")
            /\ remote' = remote
            /\ Receive(last)
       ELSE /\ last' = [c EXCEPT !.at = "listing"]
            /\ remote' = [remote EXCEPT ![last.tid].msgs = Append(@, Msg("assistant", ReplyText))]
            /\ cookie' = cookie

\* the poll loop that answers a run that did not complete like one that did
pollStep_ignoresStatus(latency, throws) ==
  LET k == last.polls + 1
      st == StatusAt(last.run, k)
      c == [last EXCEPT !.polls = k, !.polledAt = last.now, !.status = st,
                        !.now = @ + latency + (IF st \in Terminal THEN 0 ELSE PollSleepMs)]
  IN
  /\ last.op = "chat" /\ last.at = "polling"
  /\ ChatOnly
  /\ UNCHANGED <<remote, cookie>>
  /\ last' = IF st \in Terminal THEN [c EXCEPT !.at = "listing"] ELSE c

\* index.js lines 390-402, part_002 lines 85-96
pollStep(latency, throws) ==
  /\ last.op = "chat"
  /\ poll(TRUE, latency, throws)

\* index.js lines 63-74
pollStepThreadless(latency, throws) ==
  /\ last.op = "chatThreadless"
  /\ last.polls < MaxPolls
  /\ poll(FALSE, latency, throws)

\* index.js lines 441-447 and 517-521: messages.list, the reply, the answer
chatFinish(throws) ==
  LET text == lastAssistant(remote[last.tid].msgs)
      reply == IF text = <<>> THEN NoReply ELSE text
  IN
  /\ last.op \in {"chat", "chatThreadless"} /\ last.at = "listing"
  /\ ChatOnly
  /\ remote' = remote
  /\ Receive(last)
  /\ last' = IF throws
               THEN Answered(last, Response(500, FALSE, <<>>, Thrown("messages.list")),
                             "messages.list")
               ELSE Answered(last, Response(200, TRUE, reply, <<>>), "none")

CallInit ==
  /\ ls \in Items
  /\ state = DefaultState
  /\ threadId = Null
  /\ messages = <<>>
  /\ bannerHidden = BannerHiddenAtLoad
  /\ cookie = Null
  /\ remote = [t \in 1..(MaxThreads - 1) |-> [alive |-> TRUE, msgs |-> OldHistory]]
  /\ net = <<>>
  /\ nsends = 0
  /\ gestures = 0
  /\ derived = {}
  /\ last = [op |-> "init", at |-> "ran", ok |-> TRUE, n |-> 0, boot |-> "pending"]

CallNext ==
  \/ callLoadState
  \/ \E x \in LineTexts : callFirstLine(x)
  \/ \E t \in TIDs, f \in FIDs \cup {Null} : callMoveChatToFolder(t, f)
  \/ \E t \in TIDs, m \in Histories : callFetchHistory(t, m)
  \/ \E t \in TIDs : callDeleteChatLocal(t)
  \/ \E a \in NameAnswers : callAddFolder(a)
  \/ \E f \in FIDs, a \in NameAnswers : callRenameFolder(f, a)
  \/ \E b \in SwitchBodies, x \in BOOLEAN : callThreadSwitch(b, x)
  \/ \E e \in Envs, x \in CallThrows, r \in Runs : callChat(e, x, r)
  \/ \E e \in Envs, x \in CallThrows, r \in Runs : callChatThreadless(e, x, r)
  \/ \E l \in Latencies, x \in BOOLEAN : pollStep(l, x)
  \/ \E l \in Latencies, x \in BOOLEAN : pollStepThreadless(l, x)
  \/ \E x \in BOOLEAN : chatFinish(x)

CallSpec == CallInit /\ [][CallNext]_vars

(* ------------------------------ properties ----------------------------- *)

count(arr, x) == Cardinality({i \in DOMAIN arr : arr[i] = x})

\* the containers of s that list the thread id t
Holders(s, t) == {c \in Containers(s) : includes(ChatsOf(s, c), t)}

\* t is listed once, in one container
InOneContainer(s, t) ==
  /\ Cardinality(Holders(s, t)) = 1
  /\ \A c \in Holders(s, t) : count(ChatsOf(s, c), t) = 1

\* the thread ids some container of s lists
Listed(s) == UNION {Elems(ChatsOf(s, c)) : c \in Containers(s)}

\* C1: no thread id occurs more than once across all containers: it is in at most
\* one folder's chats or in Uncategorized, and never twice in the same list.
C1_MembershipExclusive == \A t \in Listed(state) : InOneContainer(state, t)

\* C1's case: chats are filed in a folder and in Uncategorized at the same time
C1_Witness ==
  /\ state.uncategorized # <<>>
  /\ \E f \in DOMAIN state.folders : state.folders[f].chats # <<>>

\* C2: a confirmed deleteFolder(fid) removes the folder, leaves every chat it held
\* in Uncategorized exactly once, and leaves every thread id that was in a
\* container in exactly one container.
C2_DeleteFolderKeepsChats ==
  [][\A f \in FIDs :
       deleteFolder(f, TRUE) =>
         /\ f \notin DOMAIN state'.folders
         /\ \A t \in Elems(state.folders[f].chats) : count(state'.uncategorized, t) = 1
         /\ \A t \in Listed(state) : InOneContainer(state', t)]_vars

\* C2's case: a folder that held chats has just been deleted
C2_Witness ==
  /\ last.op = "deleteFolder" /\ last.ok /\ last.n > 0

\* C3 as claimed: at most one POST /chat is awaited at any time
C3_OneSendInFlight == Cardinality({i \in DOMAIN net : net[i].kind = "chat"}) <= 1

\* C4 as claimed: the view never holds the answer (reply or error) to a send that
\* was issued on another thread than the active one
C4_StaleReplyDiscarded ==
  \A i \in DOMAIN messages :
    (messages[i].role = "assistant" /\ messages[i].send # 0 /\ messages[i].tid # Null) =>
      messages[i].tid = threadId

\* an error notice is put in front of the user: the only place app.js has for one
\* is a bubble of the message view (lines 503-505)
ErrorSurfaced ==
  /\ Len(messages') = Len(messages) + 1
  /\ SubSeq(messages', 1, Len(messages)) = messages
  /\ messages'[Len(messages')].content = ErrorText

StillDisplayed == Len(messages') >= Len(messages) /\ SubSeq(messages', 1, Len(messages)) = messages

\* C5 as claimed: switchThread(tid) to an id the gateway does not know leaves the
\* active thread id and lastActiveThreadId alone, keeps the displayed messages and
\* surfaces an error
C5_UnknownSwitchReported ==
  [][\A i \in DOMAIN net :
       (resolve(i) /\ net[i].cont = "switchThread" /\ ~Known(net[i].target) /\ ~net[i].ok) =>
         /\ threadId' = threadId
         /\ state'.lastActiveThreadId = state.lastActiveThreadId
         /\ StillDisplayed
         /\ ErrorSurfaced]_vars

\* C6 as claimed: once sendChat has set a thread's title, no later sendChat or
\* fetchHistory changes it
C6_TitleDerivedOnce ==
  [][\A t \in derived :
       (/\ t \in DOMAIN state.threads /\ t \in DOMAIN state'.threads
        /\ last'.op \in {"sendChat", "fetchHistory"}) =>
         state'.threads[t].title = state.threads[t].title]_vars

\* C7 as claimed: a user bubble of a send that is no longer awaited is followed by
\* the reply or the error notice of that send
C7_SendAnswered ==
  \A i \in DOMAIN messages :
    (/\ messages[i].role = "user" /\ messages[i].send # 0
     /\ ~\E k \in DOMAIN net : net[k].kind = "chat" /\ net[k].send = messages[i].send) =>
      \E k \in DOMAIN messages :
        k > i /\ messages[k].role = "assistant" /\ messages[k].send = messages[i].send

HandlerFailed(ops) == last'.op \in ops /\ last'.at = "resumed" /\ ~last'.ok

\* C8: when POST /new answers ok:false, startNewThread and startNewThreadInFolder
\* leave the active thread id, the state and the displayed messages as they were
C8_FailedNewChangesNothing ==
  [][HandlerFailed({"startNewThread", "startNewThreadInFolder"}) =>
       UNCHANGED <<threadId, state, messages>>]_vars

\* C8's case: a new-thread request failed while a thread with messages was open
C8_Witness ==
  /\ last = Step("startNewThread", "resumed", FALSE)
  /\ threadId # Null /\ messages # <<>>

\* C9: after a successful startNewThread or startNewThreadInFolder(fid) returning N,
\* N has a record with the placeholder title, is in exactly one container (folder
\* fid when it exists, else Uncategorized), is the active and the last active
\* thread, and the message view is empty
C9_NewThreadRegistered ==
  [][\A i \in DOMAIN net :
       (resolve(i) /\ net[i].kind = "new" /\ net[i].ok) =>
         LET N == net[i].rtid
             fid == net[i].fid
             home == IF net[i].cont = "startNewThreadInFolder" /\ fid \in DOMAIN state.folders
                       THEN <<"folder", fid>> ELSE <<"uncategorized", Null>>
         IN /\ N \in DOMAIN state'.threads
            /\ state'.threads[N].title = NewChat
            /\ InOneContainer(state', N)
            /\ Holders(state', N) = {home}
            /\ threadId' = N
            /\ state'.lastActiveThreadId = N
            /\ messages' = <<>>]_vars

\* C9's case: a new chat has just been created in a folder
C9_Witness ==
  /\ last = Step("startNewThreadInFolder", "resumed", TRUE)
  /\ \E f \in DOMAIN state.folders : includes(state.folders[f].chats, threadId)

\* C10 as claimed: a fetchHistory that fails (ok:false, or the fetch rejects) leaves
\* the organizer state and the active thread id alone and surfaces an error
C10_FailedHistoryReported ==
  [][(last'.op = "fetchHistory" /\ last'.at \in {"resumed", "rejected"} /\ ~last'.ok) =>
       /\ UNCHANGED <<state, threadId>>
       /\ ErrorSurfaced]_vars

\* C11 as claimed: whenever no request is awaited, the active thread id, if set, has
\* a record in state.threads and is listed in a container
C11_ActiveThreadIndexed ==
  (net = <<>> /\ threadId # Null) =>
    (threadId \in DOMAIN state.threads /\ Holders(state, threadId) # {})

\* C12 as claimed: once the fetchHistory of startup has failed and every handler
\* has run to its end, the client has an active thread that the gateway knows
C12_StartupFallsBack ==
  (last.boot = "failed" /\ net = <<>>) => (threadId # Null /\ Known(threadId))

Uncategorized == <<"uncategorized", Null>>

C14_UnknownMoveIsNoOp ==
  (/\ last.op = "moveChatToFolder"
   /\ last.arg.tid \notin DOMAIN last.before.threads
   /\ Holders(last.before, last.arg.tid) = {}) =>
    /\ state.folders = last.before.folders
    /\ state.uncategorized = last.before.uncategorized
    /\ state.threads = last.before.threads

\* C15: after deleteChatLocal(tid), tid is in no folder's chats and not in
\* Uncategorized and has no record; every other thread keeps its record and its
\* place; the remote threads are as they were, and the only request the call may
\* send is a POST /new, which names no thread.
C15_DeleteChatLocal ==
  [][\A t \in TIDs :
       callDeleteChatLocal(t) =>
         /\ Holders(state', t) = {}
         /\ DOMAIN state'.threads = DOMAIN state.threads \ {t}
         /\ \A u \in DOMAIN state'.threads : state'.threads[u] = state.threads[u]
         /\ Containers(state') = Containers(state)
         /\ \A c \in Containers(state) : ChatsOf(state', c) = without(ChatsOf(state, c), t)
         /\ remote' = remote
         /\ Len(net') >= Len(net) /\ SubSeq(net', 1, Len(net)) = net
         /\ \A i \in DOMAIN net' \ DOMAIN net : net'[i].kind = "new"]_vars

\* C15's case: the active chat has been deleted while another chat is listed
C15_Witness ==
  /\ last.op = "deleteChatLocal" /\ last.ok
  /\ threadId \notin DOMAIN state.threads /\ net # <<>>
  /\ Listed(state) # {}

\* the text a title is derived from: the content of the first user message, else of
\* the first message, when it is not empty
TitleHint(msgs) ==
  LET users == {i \in DOMAIN msgs : msgs[i].role = "user"}
      first == CHOOSE i \in users : \A k \in users : i <= k
  IN IF users # {} /\ msgs[first].content # <<>> THEN msgs[first].content
     ELSE IF msgs # <<>> THEN msgs[1].content
     ELSE <<>>

HintedTitle(msgs) == IF TitleHint(msgs) # <<>> THEN firstLine(TitleHint(msgs)) ELSE NewChat

\* C16: the registration step of fetchHistory is an upsert.  For an unseen thread
\* id it inserts one record and lists the id once in Uncategorized, titled from the
\* first user message (or the first message) when that text is not empty, else with
\* the placeholder; for a seen id it changes nothing but the title, and the title
\* only when it still is the placeholder.
C16_RegisterIsUpsert ==
  (last.op = "fetchHistory") =>
    LET b == last.before
        t == last.arg.tid
        title == HintedTitle(last.arg.msgs)
    IN /\ state.folders = b.folders
       /\ DOMAIN state.threads = DOMAIN b.threads \cup {t}
       /\ \A u \in DOMAIN b.threads \ {t} : state.threads[u] = b.threads[u]
       /\ state.threads[t].id = t
       /\ IF t \notin DOMAIN b.threads
            THEN /\ state.threads[t].title = title
                 /\ count(state.uncategorized, t) = 1
                 /\ without(state.uncategorized, t) = b.uncategorized
            ELSE /\ state.uncategorized = b.uncategorized
                 /\ state.threads[t].title =
                      IF b.threads[t].title = NewChat THEN title ELSE b.threads[t].title

\* C16's case: a seen thread that still had the placeholder title got its title
\* from the history, next to a thread that kept its own
C16_Witness ==
  /\ last.op = "fetchHistory"
  /\ last.arg.tid \in DOMAIN last.before.threads
  /\ last.before.threads[last.arg.tid].title = NewChat
  /\ state.threads[last.arg.tid].title = Hello
  /\ Cardinality(DOMAIN state.threads) > 1

\* C17: a second successful fetchHistory with the same threadId and messages, right
\* after the first, leaves the organizer state as the first left it.
C17_RegisterIdempotent ==
  (last.op = "fetchHistory" /\ ~last.arg.first) => state = last.before

\* C17's case: a thread was registered with its history and registered again
C17_Witness ==
  /\ last.op = "fetchHistory" /\ ~last.arg.first
  /\ last.arg.msgs = OldHistory
  /\ state.threads[last.arg.tid].title = Hello
  /\ includes(state.uncategorized, last.arg.tid)

\* x without the whitespace at its two ends
Stripped(x) ==
  LET ink == {i \in DOMAIN x : x[i] \notin Whitespace}
  IN IF ink = {} THEN <<>>
     ELSE SubSeq(x, CHOOSE a \in ink : \A i \in ink : a <= i,
                    CHOOSE b \in ink : \A i \in ink : i <= b)

\* t[a..b] is the first line of t that is not empty
FirstLineAt(t, a, b) ==
  /\ a <= b
  /\ \A i \in 1..(a - 1) : t[i] = "\n"
  /\ \A i \in a..b : t[i] # "\n"
  /\ b = Len(t) \/ t[b + 1] = "\n"

\* C18: firstLine(text) is the first non-empty line of the trimmed text, cut to its
\* first 45 characters plus one ellipsis character when it is longer than 48
\* characters; it is never longer than 48 characters, and it is "Untitled chat"
\* when the text has no non-empty line.
C18_FirstLine ==
  (last.op = "firstLine") =>
    LET t == Stripped(last.arg.text)
        r == last.arg.line
    IN /\ Len(r) <= TitleMax
       /\ IF \A i \in DOMAIN t : t[i] = "\n"
            THEN r = UntitledChat
            ELSE \E a, b \in DOMAIN t :
                   /\ FirstLineAt(t, a, b)
                   /\ r = IF b - a + 1 > TitleMax
                            THEN SubSeq(t, a, a + TitleKeep - 1) \o <<Ellipsis>>
                            ELSE SubSeq(t, a, b)

\* C18's case: the first line of a padded text was too long and has been cut
C18_Witness ==
  /\ last.op = "firstLine"
  /\ last.arg.text # <<>> /\ last.arg.text[1] \in Whitespace
  /\ Len(last.arg.line) = TitleKeep + 1
  /\ last.arg.line[TitleKeep + 1] = Ellipsis

StoredAndParses == ls # <<>> /\ Parses(ls[1])

C21_MissingFieldsDefault ==
  (last.op = "loadState" /\ StoredAndParses) =>
    /\ DOMAIN state = DOMAIN DefaultState
    /\ \A k \in DOMAIN DefaultState \ DOMAIN ls[1] : state[k] = DefaultState[k]

\* C22: between handlers, local storage holds the organizer state as it is in
\* memory: every handler that changed state has saved after its last change (and
\* nothing is stored only while state still is the initial one).
C22_PersistedEqualsState ==
  IF ls = <<>> THEN state = DefaultState ELSE ls = saveState(state)

\* C22's case: a title was derived by sendChat and a chat was filed in a folder
C22_Witness ==
  /\ ls # <<>>
  /\ \E t \in derived : t \in DOMAIN state.threads /\ state.threads[t].title = Hello
  /\ \E f \in DOMAIN state.folders : state.folders[f].chats # <<>>

C24_BannerIffEmpty == bannerHidden = (messages # <<>>)

\* C24's case: a history without messages has just been loaded
C24_Witness ==
  /\ last = Step("fetchHistory", "resumed", TRUE)
  /\ messages = <<>> /\ ~bannerHidden

\* C25: POST /thread/switch changes the cookie only after the remote API confirmed
\* the thread: a missing or non-string threadId, or an id the API does not know,
\* gets a 400 and leaves the cookie as it was; a known id gets ok:true and the
\* cookie set to it.
C25_SwitchAfterConfirmation ==
  last.op = "threadSwitch" =>
    LET b == last.arg.body
        valid == b.type = "string" /\ b.id # Null
    IN /\ cookie # last.jar => (valid /\ Known(b.id) /\ ~last.arg.throws)
       /\ (~valid \/ ~Known(b.id)) =>
            (last.res.code = 400 /\ ~last.res.ok /\ cookie = last.jar)
       /\ (valid /\ Known(b.id) /\ ~last.arg.throws) =>
            (last.res.ok /\ cookie = b.id)

\* C25's case: a browser whose cookie names a thread asked for a thread the API
\* does not know
C25_Witness ==
  /\ last.op = "threadSwitch" /\ last.jar # Null
  /\ last.arg.body.type = "string" /\ last.arg.body.id # Null /\ ~Known(last.arg.body.id)
  /\ last.res.code = 400 /\ cookie = last.jar

C27_PollLoopTerminates ==
  last.op \in {"chat", "chatThreadless"} =>
    /\ last.polledAt <= PollDeadlineMs
    /\ last.polls <= PollDeadlineMs \div PollSleepMs + 1
    /\ last.at = "polling" => last.status \notin Terminal
    /\ (last.status \in Terminal /\ last.run.ends # 0) => last.polls = last.run.ends

\* C28 as claimed: when no request is in flight and a thread is in view, the
\* thread_id cookie names that thread.
C28_CookieIsActiveThread ==
  (net = <<>> /\ threadId # Null) => cookie = threadId

\* C29: containers and records agree in both directions: every id listed in a
\* folder or in Uncategorized has a record in state.threads, and every record is
\* listed in some container.
C29_ContainersMatchRecords == Listed(state) = DOMAIN state.threads

\* C29's case: after a chat was deleted, the chat that remains is filed in a
\* folder and has its record
C29_Witness ==
  /\ last.op = "deleteChatLocal" /\ last.ok
  /\ DOMAIN state.threads # {}
  /\ \E f \in DOMAIN state.folders : Elems(state.folders[f].chats) = DOMAIN state.threads

\* C30 as claimed: requests that were sent without a cookie and are answered at
\* the same time were all given the same thread by ensureThread.
C30_OneThreadPerBrowser ==
  \A i, k \in DOMAIN net :
    (/\ net[i].phase = "answered" /\ net[k].phase = "answered"
     /\ net[i].cookie = Null /\ net[k].cookie = Null
     /\ net[i].kind \in {"history", "chat"} /\ net[k].kind \in {"history", "chat"}
     /\ net[i].target = Null /\ net[k].target = Null
     /\ net[i].setCookie # Null /\ net[k].setCookie # Null)
    => net[i].setCookie = net[k].setCookie

====
